---- MODULE Spec2Model ----
(***************************************************************************)
(* A model of libssh's poll wrapper (src/libssh/poll.c): poll objects      *)
(* (struct ssh_poll), poll contexts (struct ssh_poll_ctx) with their two   *)
(* parallel arrays, attach / detach / resize, the dispatch walk of         *)
(* ssh_poll_ctx, the forced-removal sweep of ssh_poll_ctx_free, and the    *)
(* ssh_poll that is built on WaitForMultipleObjectsEx (poll_rest).         *)
(*                                                                         *)
(* Array slots are numbered from 0 as in the C code; the TLA+ sequences    *)
(* that hold them are 1-based, so slot i lives at sequence position i + 1. *)
(* The length of a sequence is the size of the heap block behind the       *)
(* pointer: a NULL array is the empty sequence.                            *)
(*                                                                         *)
(* Memory the program never wrote (the tail realloc adds, anything outside *)
(* a block) is indeterminate: such a slot is kept as Garbage and a read of *)
(* it yields any value.  A write outside a block is dropped (the memory it *)
(* lands in is not part of the model) and reported in the oob flag of the  *)
(* call's result.                                                          *)
(***************************************************************************)
EXTENDS Integers, Sequences, FiniteSets, TLC

\* ------------------------------------------------------------------ bounds
NumEvents == 3          \* poll objects created by ssh_poll_new
MaxChunk  == 2          \* chunk_size arguments 0 .. MaxChunk given to ssh_poll_ctx_new
MaxSweep  == 5          \* callbacks one ssh_poll_ctx_free sweep may run before the model stops it
MaxOps    == 5          \* API calls made by the callers in one run
MaxDetach == 2          \* poll objects the callbacks of one ssh_poll_ctx walk may detach (SpecWalk)
MaxFds    == 3          \* entries of the array given to the emulated ssh_poll

\* -------------------------------------------------------- program constants
SSH_POLL_CTX_CHUNK == 5
POLLERR == 8

\* the infinite timeout, as the int that holds it
INFINITE == -1

\* the shortest timeout the emulated wait honours, in milliseconds
MinTimeout == 10

NULL == 0

\* <windows.h>; WAIT_FAILED is 0xFFFFFFFF, written as the 32-bit integer of the
\* same bits
MAXIMUM_WAIT_OBJECTS == 64
WAIT_OBJECT_0 == 0
WAIT_ABANDONED_0 == 128
WAIT_IO_COMPLETION == 192
WAIT_TIMEOUT == 258
WAIT_FAILED == -1

Events   == 1 .. NumEvents
Contexts == {1, 2}
Masks    == {0, 1, 2, 3}
\* the descriptor ssh_poll_new gives poll object e: 10, 11, 12, ...
Fd(e)    == 9 + e
FdVals   == {0} \cup {Fd(e) : e \in Events}
REvents  == {1, POLLERR}

\* ------------------------------------------------------------------- state
VARIABLES
    poll,     \* poll[p]: struct ssh_poll; u is the fd / idx union
    pctx,     \* pctx[c]: struct ssh_poll_ctx
    pc,       \* where the single thread of control is
    w,        \* locals of the running ssh_poll_ctx / ssh_poll_ctx_free
    calls,    \* calls[p]: callbacks of p run by the current (or last) walk
    hist,     \* what the current (or last) walk has seen
    last      \* the last completed API call and its result

vars == <<poll, pctx, pc, w, calls, hist, last>>

\* ---------------------------------------------------------------- helpers
RECURSIVE BitAnd(_, _)
BitAnd(a, b) ==
    IF a = 0 \/ b = 0 THEN 0
    ELSE (a % 2) * (b % 2) + 2 * BitAnd(a \div 2, b \div 2)

BitOr(a, b) == a + b - BitAnd(a, b)

BitAndNot(a, b) == a - BitAnd(a, b)

\* an indeterminate pollfd_t, an indeterminate SSH_POLL pointer
Garbage == [fd |-> 0, events |-> 0, revents |-> 0, def |-> FALSE]
GarbagePtr == NULL

InBlock(arr, i) == i >= 0 /\ i < Len(arr)

\* arr[i] as an lvalue read: the slot, or Garbage outside the block
Slot(arr, i, g) == IF InBlock(arr, i) THEN arr[i + 1] ELSE g

\* arr[i] = v; outside the block the store is dropped
Store(arr, i, v) == IF InBlock(arr, i) THEN [arr EXCEPT ![i + 1] = v] ELSE arr

\* the values a read of pollfds[i].fd can yield
ReadFd(pollfds, i) ==
    LET s == Slot(pollfds, i, Garbage) IN
    IF s.def THEN {s.fd} ELSE FdVals

\* the values a read of pollfds[i].revents can yield
ReadREvents(pollfds, i) ==
    LET s == Slot(pollfds, i, Garbage) IN
    IF s.def THEN {s.revents} ELSE {0} \cup REvents

\* the values a read of pollptrs[i] can yield
ReadPtr(pollptrs, i) ==
    LET q == Slot(pollptrs, i, GarbagePtr) IN
    IF q # GarbagePtr THEN {q} ELSE Events

\* realloc(arr, n) that succeeds: the common prefix is kept, the rest is indeterminate
Realloc(arr, n, g) == [k \in 1 .. n |-> IF k <= Len(arr) THEN arr[k] ELSE g]

AllocOK  == {"ok"}
AllocAny == {"ok", "fail1", "fail2", "fail2null"}

\* ------------------------------------------------------------ constructors
ssh_poll_new(fd, events, cb) ==
    [ctx |-> NULL, u |-> fd, events |-> events, cb |-> cb]

ssh_poll_ctx_new(chunk_size) ==
    [chunk_size      |-> IF chunk_size = 0 THEN SSH_POLL_CTX_CHUNK ELSE chunk_size,
     pollptrs        |-> << >>,
     pollfds         |-> << >>,
     polls_allocated |-> 0,
     polls_used      |-> 0,
     freed           |-> FALSE]

\* ------------------------------------------------------------------ resize
\* o is what the two reallocs do: "ok", the first fails ("fail1"), the second
\* fails and the first array is given back its old size ("fail2"), or the
\* second fails and so does the realloc that gives it back ("fail2null").
ssh_poll_ctx_resize(ctx, new_size, o) ==
    CASE o = "ok" ->
           [ctx |-> [ctx EXCEPT !.pollptrs = Realloc(ctx.pollptrs, new_size, GarbagePtr),
                                !.pollfds = Realloc(ctx.pollfds, new_size, Garbage),
                                !.polls_allocated = new_size],
            rc |-> 0]
      [] o = "fail1" ->
           [ctx |-> ctx, rc |-> -1]
      [] o = "fail2" ->
           [ctx |-> [ctx EXCEPT !.pollptrs =
                        Realloc(Realloc(ctx.pollptrs, new_size, GarbagePtr),
                                ctx.polls_allocated, GarbagePtr)],
            rc |-> -1]
      [] OTHER ->
           [ctx |-> [ctx EXCEPT !.pollptrs = << >>], rc |-> -1]

\* --------------------------------------------------------------- accessors
\* Every API function is an operator from the heap S = [poll, pctx] to the set
\* of results [poll, pctx, rc, oob] the call can have (a set, because a read
\* of indeterminate memory can yield any value).
Res(pl, cx, rc, oob) == [poll |-> pl, pctx |-> cx, rc |-> rc, oob |-> oob]

ssh_poll_get_ctx(S, p) == S.poll[p].ctx

ssh_poll_get_events(S, p) == S.poll[p].events

ssh_poll_set_events(S, p, events) ==
    LET pl == [S.poll EXCEPT ![p].events = events]
        c  == S.poll[p].ctx
        i  == S.poll[p].u
    IN  IF c # NULL
        THEN LET fds == S.pctx[c].pollfds
                 s   == Slot(fds, i, Garbage)
                 s2  == IF s.def THEN [s EXCEPT !.events = events] ELSE s
             IN {Res(pl, [S.pctx EXCEPT ![c].pollfds = Store(fds, i, s2)],
                     0, ~InBlock(fds, i))}
        ELSE {Res(pl, S.pctx, 0, FALSE)}

ssh_poll_add_events(S, p, events) ==
    ssh_poll_set_events(S, p, BitOr(ssh_poll_get_events(S, p), events))

ssh_poll_remove_events(S, p, events) ==
    ssh_poll_set_events(S, p, BitAndNot(ssh_poll_get_events(S, p), events))

ssh_poll_get_fd(S, p) ==
    LET c == S.poll[p].ctx
        i == S.poll[p].u
    IN  IF c # NULL
        THEN {Res(S.poll, S.pctx, fd, ~InBlock(S.pctx[c].pollfds, i)) :
                 fd \in ReadFd(S.pctx[c].pollfds, i)}
        ELSE {Res(S.poll, S.pctx, S.poll[p].u, FALSE)}

ssh_poll_set_callback(S, p, cb) ==
    IF cb # NULL
    THEN {Res([S.poll EXCEPT ![p].cb = cb], S.pctx, 0, FALSE)}
    ELSE {Res(S.poll, S.pctx, 0, FALSE)}

\* ------------------------------------------------------------ attach/detach
\* ssh_poll_ctx_add without its "already attached" test
ssh_poll_ctx_add_nocheck(S, c, p, o) ==
    LET ctx  == S.pctx[c]
        grow == ctx.polls_used = ctx.polls_allocated
        rs   == IF grow
                THEN ssh_poll_ctx_resize(ctx, ctx.polls_allocated + ctx.chunk_size, o)
                ELSE [ctx |-> ctx, rc |-> 0]
    IN  IF rs.rc < 0
        THEN {Res(S.poll, [S.pctx EXCEPT ![c] = rs.ctx], -1, FALSE)}
        ELSE
        LET fd  == S.poll[p].u
            idx == rs.ctx.polls_used
            c2  == [rs.ctx EXCEPT
                      !.polls_used = idx + 1,
                      !.pollptrs = Store(rs.ctx.pollptrs, idx, p),
                      !.pollfds = Store(rs.ctx.pollfds, idx,
                          [fd |-> fd, events |-> S.poll[p].events,
                           revents |-> 0, def |-> TRUE])]
        IN {Res([S.poll EXCEPT ![p].u = idx, ![p].ctx = c],
                [S.pctx EXCEPT ![c] = c2], 0,
                ~InBlock(rs.ctx.pollptrs, idx) \/ ~InBlock(rs.ctx.pollfds, idx))}

ssh_poll_ctx_add(S, c, p, o) ==
    LET ctx == S.pctx[c] IN
    IF S.poll[p].ctx # NULL
    THEN {Res(S.poll, S.pctx, -1, FALSE)}
    ELSE
    LET grow == ctx.polls_used = ctx.polls_allocated
        rs   == IF grow
                THEN ssh_poll_ctx_resize(ctx, ctx.polls_allocated + ctx.chunk_size, o)
                ELSE [ctx |-> ctx, rc |-> 0]
    IN  IF rs.rc < 0
        THEN {Res(S.poll, [S.pctx EXCEPT ![c] = rs.ctx], -1, FALSE)}
        ELSE
        LET fd  == S.poll[p].u
            idx == rs.ctx.polls_used
            c2  == [rs.ctx EXCEPT
                      !.polls_used = idx + 1,
                      !.pollptrs = Store(rs.ctx.pollptrs, idx, p),
                      !.pollfds = Store(rs.ctx.pollfds, idx,
                          [fd |-> fd, events |-> S.poll[p].events,
                           revents |-> 0, def |-> TRUE])]
        IN {Res([S.poll EXCEPT ![p].u = idx, ![p].ctx = c],
                [S.pctx EXCEPT ![c] = c2], 0,
                ~InBlock(rs.ctx.pollptrs, idx) \/ ~InBlock(rs.ctx.pollfds, idx))}

\* ssh_poll_ctx_remove with the shrink test left to the caller: slack is
\* the slack at which the arrays are shrunk by one chunk
RemoveShrinkingAt(S, c, p, o, slack) ==
    LET ctx  == S.pctx[c]
        i    == S.poll[p].u
        used == ctx.polls_used - 1
        fill == used > 0 /\ used # i
        fds  == IF fill
                THEN Store(ctx.pollfds, i, Slot(ctx.pollfds, used, Garbage))
                ELSE ctx.pollfds
        ptrs == IF fill
                THEN Store(ctx.pollptrs, i, Slot(ctx.pollptrs, used, GarbagePtr))
                ELSE ctx.pollptrs
        c1   == [ctx EXCEPT !.polls_used = used, !.pollfds = fds, !.pollptrs = ptrs]
        c2   == IF c1.polls_allocated - used >= slack
                THEN ssh_poll_ctx_resize(c1, c1.polls_allocated - c1.chunk_size, o).ctx
                ELSE c1
        oob  == \/ ~InBlock(ctx.pollfds, i)
                \/ fill /\ (~InBlock(ctx.pollptrs, i) \/ ~InBlock(ctx.pollfds, used)
                            \/ ~InBlock(ctx.pollptrs, used))
    IN  {Res([S.poll EXCEPT ![p].u = fd, ![p].ctx = NULL],
             [S.pctx EXCEPT ![c] = c2], 0, oob) :
            fd \in ReadFd(ctx.pollfds, i)}

\* a remove that shrinks as soon as the slack reaches one chunk (>= for >)
ssh_poll_ctx_remove_eager(S, c, p, o) ==
    RemoveShrinkingAt(S, c, p, o, S.pctx[c].chunk_size)

\* a remove that shrinks one slot too late
ssh_poll_ctx_remove_late(S, c, p, o) ==
    RemoveShrinkingAt(S, c, p, o, S.pctx[c].chunk_size + 2)

ssh_poll_ctx_remove(S, c, p, o) ==
    LET ctx  == S.pctx[c]
        i    == S.poll[p].u
        used == ctx.polls_used - 1
        fill == used > 0 /\ used # i
        fds  == IF fill
                THEN Store(ctx.pollfds, i, Slot(ctx.pollfds, used, Garbage))
                ELSE ctx.pollfds
        ptrs == IF fill
                THEN Store(ctx.pollptrs, i, Slot(ctx.pollptrs, used, GarbagePtr))
                ELSE ctx.pollptrs
        c1   == [ctx EXCEPT !.polls_used = used, !.pollfds = fds, !.pollptrs = ptrs]
        c2   == IF c1.polls_allocated - used > c1.chunk_size
                THEN ssh_poll_ctx_resize(c1, c1.polls_allocated - c1.chunk_size, o).ctx
                ELSE c1
        oob  == \/ ~InBlock(ctx.pollfds, i)
                \/ fill /\ (~InBlock(ctx.pollptrs, i) \/ ~InBlock(ctx.pollfds, used)
                            \/ ~InBlock(ctx.pollptrs, used))
    IN  {Res([S.poll EXCEPT ![p].u = fd, ![p].ctx = NULL],
             [S.pctx EXCEPT ![c] = c2], 0, oob) :
            fd \in ReadFd(ctx.pollfds, i)}

\* --------------------------------------------------------------- API calls
Heap == [poll |-> poll, pctx |-> pctx]

Live(c) == 0 .. pctx[c].polls_used - 1

PtrAt(c, i) == Slot(pctx[c].pollptrs, i, GarbagePtr)

FdsAt(c, i) == Slot(pctx[c].pollfds, i, Garbage)

\* the caller is between two API calls and has calls left to make
Idle == pc = "idle" /\ last.n < MaxOps

NoCall == [op |-> "none", c |-> NULL, p |-> NULL, arg |-> 0, rc |-> 0, oob |-> FALSE,
           n |-> 0]

Done(op, c, p, arg, r) ==
    /\ poll' = r.poll
    /\ pctx' = r.pctx
    /\ last' = [op |-> op, c |-> c, p |-> p, arg |-> arg, rc |-> r.rc, oob |-> r.oob,
                n |-> last.n + 1]

NoWalk == [c |-> NULL, i |-> 0, used |-> 0, rc |-> 0, p |-> NULL, fd |-> 0,
           revents |-> 0, det |-> {}]

\* what is recorded of the running (or last) walk: the poll objects that fired,
\* the poll objects attached at its start, whether its callbacks kept to the
\* removal protocol, the number of callbacks run, and of ssh_poll_ctx also the
\* polls_used it found, whether it called the wait and what the wait returned,
\* the slots that fired, the slots whose callback ran (in the order they ran),
\* whether every callback that detached something returned the sentinel, and
\* whether no callback detached anything or returned the sentinel
NoHist == [fired |-> {}, start |-> {}, contract |-> TRUE, n |-> 0,
           nfds |-> 0, waited |-> FALSE, wait |-> 0, slots |-> {}, log |-> << >>,
           reported |-> TRUE, quiet |-> TRUE]

\* the record of the last walk is dropped when the next API call is made
NoWalkRecord == calls' = [e \in Events |-> 0] /\ hist' = NoHist

\* p is detached, or attached to a context that has not been freed
Usable(p) == IF poll[p].ctx = NULL THEN TRUE ELSE ~pctx[poll[p].ctx].freed

\* a caller attaches p to a live context
CallAdd(c, p, o) ==
    /\ Idle
    /\ ~pctx[c].freed
    /\ \E r \in ssh_poll_ctx_add(Heap, c, p, o) : Done("add", c, p, 0, r)
    /\ NoWalkRecord
    /\ UNCHANGED <<pc, w>>

\* a caller detaches p from the context it is attached to
CallRemove(c, p, o) ==
    /\ Idle
    /\ poll[p].ctx = c
    /\ ~pctx[c].freed
    /\ \E r \in ssh_poll_ctx_remove(Heap, c, p, o) : Done("remove", c, p, 0, r)
    /\ NoWalkRecord
    /\ UNCHANGED <<pc, w>>

CallGetFd(p) ==
    /\ Idle
    /\ Usable(p)
    /\ \E r \in ssh_poll_get_fd(Heap, p) : Done("get_fd", NULL, p, 0, r)
    /\ NoWalkRecord
    /\ UNCHANGED <<pc, w>>

CallSetEvents(p, m) ==
    /\ Idle
    /\ Usable(p)
    /\ \E r \in ssh_poll_set_events(Heap, p, m) : Done("set_events", NULL, p, m, r)
    /\ NoWalkRecord
    /\ UNCHANGED <<pc, w>>

CallAddEvents(p, m) ==
    /\ Idle
    /\ Usable(p)
    /\ \E r \in ssh_poll_add_events(Heap, p, m) : Done("add_events", NULL, p, m, r)
    /\ NoWalkRecord
    /\ UNCHANGED <<pc, w>>

CallRemoveEvents(p, m) ==
    /\ Idle
    /\ Usable(p)
    /\ \E r \in ssh_poll_remove_events(Heap, p, m) : Done("remove_events", NULL, p, m, r)
    /\ NoWalkRecord
    /\ UNCHANGED <<pc, w>>

\* ------------------------------------------------------- the wait primitive
\* the timeouts a caller passes: infinite, zero, and the finite ones on both
\* sides of the shortest wait the emulation honours
Timeouts == {INFINITE, 0, MinTimeout - 1, MinTimeout}

\* ssh_poll over the first nfds records, as the native poll(2) behaves: F is
\* the set of slots that fired, rv[i] the readiness of slot i \in F.  Every
\* record's revents is written (0 for the slots that did not fire) and the
\* number of fired slots is returned; F = {} is the timeout.
ssh_poll(fds, nfds, F, rv) ==
    [fds |-> [k \in 1 .. Len(fds) |->
                 IF k > nfds THEN fds[k]
                 ELSE [fds[k] EXCEPT !.revents = IF (k - 1) \in F THEN rv[k - 1] ELSE 0]],
     rc  |-> Cardinality(F)]

\* ------------------------------------------------------------ ssh_poll_ctx
ReturnArg(op, c, arg, rc) ==
    last' = [op |-> op, c |-> c, p |-> NULL, arg |-> arg, rc |-> rc, oob |-> FALSE,
             n |-> last.n + 1]

Return(op, c, rc) == ReturnArg(op, c, 0, rc)

\* a mistaken form of the test below: the capacity is tested, not the use
NothingAllocated(ctx) == ctx.polls_allocated = 0

\* if (!ctx->polls_used)
NothingAttached(ctx) == ctx.polls_used = 0

\* a mistaken form of the test below: only a timeout returns at once
WalkStartsUnlessZero(rc) == rc # 0

\* if (rc > 0)
WalkStarts(rc) == rc > 0

\* a mistaken form of the test below: the walk stops one slot early
LoopRunsShort(i, used, rc) == i < used - 1 /\ rc > 0

\* i < used && rc > 0
LoopRuns(i, used, rc) == i < used /\ rc > 0

\* a mistaken form of the reload below: used is never read again
UsedKept(r, used, polls_used) == used

\* the walk's bound after a callback returned r: it is read again from the
\* context when r is the sentinel, and only then
UsedAfter(r, used, polls_used) == IF r < 0 THEN polls_used ELSE used

\* ssh_poll_ctx on a context with nothing attached: 0, without waiting
DispatchEmpty(c, timeout) ==
    /\ Idle
    /\ ~pctx[c].freed
    /\ NothingAttached(pctx[c])
    /\ ReturnArg("poll_ctx", c, timeout, 0)
    /\ calls' = [p \in Events |-> 0]
    /\ hist' = [NoHist EXCEPT !.nfds = pctx[c].polls_used]
    /\ UNCHANGED <<poll, pctx, pc, w>>

\* ssh_poll_ctx up to the return of the wait: a failure (rc < 0) or a timeout
\* (rc = 0) is returned at once, a positive rc starts the walk
DispatchWait(c, F, rv, fail, timeout) ==
    /\ Idle
    /\ ~pctx[c].freed
    /\ ~NothingAttached(pctx[c])
    /\ F \subseteq Live(c)
    /\ IF fail THEN F = {} ELSE (F = {} => timeout # INFINITE)
    /\ calls' = [p \in Events |-> 0]
    /\ LET r == IF fail THEN [fds |-> pctx[c].pollfds, rc |-> -1]
                ELSE ssh_poll(pctx[c].pollfds, pctx[c].polls_used, F, rv) IN
       /\ pctx' = [pctx EXCEPT ![c].pollfds = r.fds]
       /\ hist' = [NoHist EXCEPT !.fired = {PtrAt(c, i) : i \in F},
                                 !.nfds = pctx[c].polls_used, !.waited = TRUE,
                                 !.wait = r.rc, !.slots = F]
       /\ IF WalkStarts(r.rc)
          THEN /\ pc' = "walk"
               /\ w' = [NoWalk EXCEPT !.c = c, !.used = pctx[c].polls_used,
                                      !.rc = r.rc]
               /\ UNCHANGED <<poll, last>>
          ELSE /\ ReturnArg("poll_ctx", c, timeout, r.rc)
               /\ UNCHANGED <<poll, pc, w>>

\* the walk's loop test fails: ssh_poll_ctx returns rc
DispatchReturn ==
    /\ pc = "walk"
    /\ ~LoopRuns(w.i, w.used, w.rc)
    /\ pc' = "idle"
    /\ Return("poll_ctx", w.c, w.rc)
    /\ w' = NoWalk
    /\ UNCHANGED <<poll, pctx, calls, hist>>

\* one pass of the walk over a slot whose revents reads 0
DispatchSkip ==
    /\ pc = "walk"
    /\ LoopRuns(w.i, w.used, w.rc)
    /\ 0 \in ReadREvents(pctx[w.c].pollfds, w.i)
    /\ w' = [w EXCEPT !.i = w.i + 1]
    /\ UNCHANGED <<poll, pctx, pc, calls, hist, last>>

\* one pass of the walk over a slot whose revents reads non-zero, up to the call
\* of the callback p->cb(p, fd, revents, p->cb_data)
DispatchInvoke ==
    /\ pc = "walk"
    /\ LoopRuns(w.i, w.used, w.rc)
    /\ \E rev \in ReadREvents(pctx[w.c].pollfds, w.i) \ {0},
          p \in ReadPtr(pctx[w.c].pollptrs, w.i),
          fd \in ReadFd(pctx[w.c].pollfds, w.i) :
          /\ w' = [w EXCEPT !.p = p, !.fd = fd, !.revents = rev, !.det = {}]
          /\ calls' = [calls EXCEPT ![p] = calls[p] + 1]
    /\ pc' = "cb"
    /\ hist' = [hist EXCEPT !.n = hist.n + 1, !.log = Append(hist.log, w.i)]
    /\ UNCHANGED <<poll, pctx, last>>

\* whether the callback that is returning r kept to the removal protocol: it
\* detached its own poll object (and nothing else) and returns the sentinel, or
\* it detached nothing and returns a non-negative value
KeptProtocol(r) == IF r < 0 THEN w.det = {w.p} ELSE w.det = {}

\* the running callback detaches q from the context being walked
CbRemove(q, o) ==
    /\ pc \in {"cb", "fcb"}
    /\ poll[q].ctx = w.c
    /\ \E r \in ssh_poll_ctx_remove(Heap, w.c, q, o) :
          /\ poll' = r.poll
          /\ pctx' = r.pctx
    /\ w' = [w EXCEPT !.det = w.det \cup {q}]
    /\ UNCHANGED <<pc, calls, hist, last>>

\* the callback returns r to the walk, which finishes the pass
DispatchCbReturn(r) ==
    /\ pc = "cb"
    /\ IF r < 0
       THEN /\ w' = [w EXCEPT !.used = UsedAfter(r, w.used, pctx[w.c].polls_used),
                              !.rc = w.rc - 1]
            /\ UNCHANGED pctx
       ELSE /\ w' = [w EXCEPT !.used = UsedAfter(r, w.used, pctx[w.c].polls_used),
                              !.i = w.i + 1, !.rc = w.rc - 1]
            /\ pctx' = [pctx EXCEPT ![w.c].pollfds =
                           LET s == Slot(pctx[w.c].pollfds, w.i, Garbage) IN
                           Store(pctx[w.c].pollfds, w.i,
                                 IF s.def THEN [s EXCEPT !.revents = 0] ELSE s)]
    /\ pc' = "walk"
    /\ hist' = [hist EXCEPT !.contract = hist.contract /\ KeptProtocol(r),
                            !.reported = hist.reported /\ (r < 0 \/ w.det = {}),
                            !.quiet = hist.quiet /\ r >= 0 /\ w.det = {}]
    /\ UNCHANGED <<poll, calls, last>>

\* ------------------------------------------------------- ssh_poll_ctx_free
\* the arrays and the context are released
Released(ctx) == [ctx EXCEPT !.pollptrs = << >>, !.pollfds = << >>, !.freed = TRUE]

\* ssh_poll_ctx_free of a context that never allocated its arrays
FreeEmpty(c) ==
    /\ Idle
    /\ ~pctx[c].freed
    /\ pctx[c].polls_allocated = 0
    /\ pctx' = [pctx EXCEPT ![c] = Released(pctx[c])]
    /\ Return("ctx_free", c, 0)
    /\ calls' = [p \in Events |-> 0]
    /\ hist' = NoHist
    /\ UNCHANGED <<poll, pc, w>>

\* ssh_poll_ctx_free up to the start of its sweep
FreeStart(c) ==
    /\ Idle
    /\ ~pctx[c].freed
    /\ pctx[c].polls_allocated > 0
    /\ pc' = "free"
    /\ w' = [NoWalk EXCEPT !.c = c, !.used = pctx[c].polls_used]
    /\ calls' = [p \in Events |-> 0]
    /\ hist' = [NoHist EXCEPT !.start = {e \in Events : poll[e].ctx = c}]
    /\ UNCHANGED <<poll, pctx, last>>

\* the sweep's loop test fails: the arrays and the context are released
FreeReturn ==
    /\ pc = "free"
    /\ ~(w.i < w.used)
    /\ pctx' = [pctx EXCEPT ![w.c] = Released(pctx[w.c])]
    /\ pc' = "idle"
    /\ Return("ctx_free", w.c, 0)
    /\ w' = NoWalk
    /\ UNCHANGED <<poll, calls, hist>>

\* one pass of the sweep, up to the call p->cb(p, fd, POLLERR, p->cb_data)
FreeInvoke ==
    /\ pc = "free"
    /\ w.i < w.used
    /\ hist.n < MaxSweep
    /\ \E p \in ReadPtr(pctx[w.c].pollptrs, w.i),
          fd \in ReadFd(pctx[w.c].pollfds, w.i) :
          /\ w' = [w EXCEPT !.p = p, !.fd = fd, !.revents = POLLERR, !.det = {}]
          /\ calls' = [calls EXCEPT ![p] = calls[p] + 1]
    /\ pc' = "fcb"
    /\ hist' = [hist EXCEPT !.n = hist.n + 1]
    /\ UNCHANGED <<poll, pctx, last>>

\* the callback returns r to the sweep, which finishes the pass
FreeCbReturn(r) ==
    /\ pc = "fcb"
    /\ w' = IF r < 0 THEN [w EXCEPT !.used = pctx[w.c].polls_used]
                     ELSE [w EXCEPT !.i = w.i + 1]
    /\ pc' = "free"
    /\ hist' = [hist EXCEPT !.contract = hist.contract /\ KeptProtocol(r)]
    /\ UNCHANGED <<poll, pctx, calls, last>>

\* ------------------------------------------- the emulated wait primitive
\* ssh_poll built on WaitForMultipleObjectsEx.  In the specification of this
\* part w holds the locals of ssh_poll and of the running poll_rest, and hist
\* the array and the handles the call started with, the handles that are
\* signalled, the waits made, and what the zero-timeout probe returned.

\* the descriptors > 0 of the entries, which the emulation uses as handles
Handles == {1, 2, 3}

\* the requested events of an entry
Requested == {1, 2}

\* the arrays a caller passes: up to MaxFds entries, some without a descriptor
\* (fd 0), some sharing one, with revents cleared as ssh_poll_ctx leaves them
PollFds ==
    UNION {[1 .. n -> [fd : {0} \cup Handles, events : Requested, revents : {0}]] :
              n \in 0 .. MaxFds}

\* the loop of ssh_poll over the entries from the k-th on: the descriptor of an
\* entry is appended to handles unless it is not > 0 or is there already
RECURSIVE AddHandles(_, _, _)
AddHandles(fds, k, handles) ==
    IF k > Len(fds) THEN handles
    ELSE IF fds[k].fd > 0 /\ ~\E i \in 1 .. Len(handles) : handles[i] = fds[k].fd
         THEN IF Len(handles) = MAXIMUM_WAIT_OBJECTS
              THEN handles
              ELSE AddHandles(fds, k + 1, Append(handles, fds[k].fd))
         ELSE AddHandles(fds, k + 1, handles)

\* the loop of poll_rest over the entries: those of the fired handle get
\* revents = events
MarkFired(fds, handle) ==
    [k \in 1 .. Len(fds) |->
        IF fds[k].fd = handle THEN [fds[k] EXCEPT !.revents = fds[k].events] ELSE fds[k]]

\* a mistaken removal: nothing is shifted, so the last handle is the one dropped
\* when nhandles is decremented
RemoveLast(handles, nhandles, fired) == handles

\* the handle at index fired (from 0) is removed from the first nhandles
\* elements of the array, in place: the elements after it move down by one
RemoveFired(handles, nhandles, fired) ==
    [j \in 1 .. Len(handles) |->
        IF j - 1 >= fired /\ j - 1 < nhandles - 1 THEN handles[j + 1] ELSE handles[j]]

\* what WaitForMultipleObjectsEx(nhandles, handles, FALSE, timeout, TRUE) can
\* return when the handles of R are signalled: the lowest index of a signalled
\* handle; if there is none, WAIT_TIMEOUT once the timeout has passed or the
\* index of a handle that became signalled during a wait with a timeout; and in
\* every case a failure, an alert (WAIT_IO_COMPLETION) or an abandoned object
WaitForMultipleObjectsEx(nhandles, handles, timeout, R) ==
    LET sig == {i \in 0 .. nhandles - 1 : handles[i + 1] \in R}
    IN  (IF sig # {}
         THEN {WAIT_OBJECT_0 + (CHOOSE i \in sig : \A j \in sig : i <= j)}
         ELSE IF timeout = 0
              THEN {WAIT_TIMEOUT}
              ELSE {WAIT_OBJECT_0 + i : i \in 0 .. nhandles - 1}
                   \cup (IF timeout = INFINITE THEN {} ELSE {WAIT_TIMEOUT}))
        \cup {WAIT_FAILED, WAIT_IO_COMPLETION, WAIT_ABANDONED_0}

\* a mistaken form of the test below: ten milliseconds are not enough
SignificantAbove(timeout) == timeout = INFINITE \/ timeout > MinTimeout

\* timeout == INFINITE || timeout >= 10
Significant(timeout) == timeout = INFINITE \/ timeout >= MinTimeout

\* ssh_poll on a null array or on too many entries: -1
PollReject(null, fds, timeout) ==
    /\ Idle
    /\ last.n = 0
    /\ null \/ Len(fds) >= MAXIMUM_WAIT_OBJECTS
    /\ ReturnArg("ssh_poll", NULL, timeout, -1)
    /\ w' = [fds |-> fds, nfds |-> Len(fds), timeout |-> timeout, handles |-> << >>,
             nhandles |-> 0, n |-> 0, t |-> 0, acc |-> 0, phase |-> "none", rc |-> -1]
    /\ hist' = [fds |-> fds, handles |-> << >>, signalled |-> {}, waits |-> << >>,
                probed |-> FALSE, probe |-> 0]
    /\ UNCHANGED <<poll, pctx, pc, calls>>

\* ssh_poll up to its first call of poll_rest: the handles are collected and,
\* if there are several, probed with timeout 0
PollEnter(fds, timeout, R) ==
    /\ Idle
    /\ last.n = 0
    /\ Len(fds) < MAXIMUM_WAIT_OBJECTS
    /\ LET handles == AddHandles(fds, 1, << >>)
           several == Len(handles) > 1
       IN  /\ w' = [fds |-> fds, nfds |-> Len(fds),
                    timeout |-> IF timeout = -1 THEN INFINITE ELSE timeout,
                    handles |-> handles, nhandles |-> Len(handles),
                    n |-> Len(handles),
                    t |-> IF several THEN 0
                          ELSE IF timeout = -1 THEN INFINITE ELSE timeout,
                    acc |-> 0,
                    phase |-> IF several THEN "probe" ELSE "single",
                    rc |-> -1]
           /\ hist' = [fds |-> fds, handles |-> handles, signalled |-> R,
                       waits |-> << >>, probed |-> FALSE, probe |-> 0]
    /\ pc' = "rest"
    /\ UNCHANGED <<poll, pctx, calls, last>>

\* the outermost poll_rest returns base + the number of levels that recursed,
\* or -1 if the innermost level returned -1
RestReturns(base) ==
    /\ pc' = "rested"
    /\ w' = [w EXCEPT !.rc = IF base < 0 THEN -1 ELSE base + w.acc]

\* poll_rest without handles: it fails on an infinite timeout and sleeps on
\* the others
PollRestSleep ==
    /\ pc = "rest"
    /\ w.n = 0
    /\ RestReturns(IF w.t = INFINITE THEN -1 ELSE 0)
    /\ UNCHANGED <<poll, pctx, calls, hist, last>>

\* one level of poll_rest over w.n handles: the wait, the marking of the
\* entries of the fired handle and, with timeout 0 and several handles, the
\* removal of the fired handle before the next level is entered
PollRestLevel(ready) ==
    /\ LET fired == ready - WAIT_OBJECT_0
           isobj == ready >= WAIT_OBJECT_0 /\ ready < WAIT_OBJECT_0 + w.n
       IN  /\ hist' = [hist EXCEPT
                          !.waits = Append(hist.waits,
                                           [n |-> w.n, t |-> w.t, ready |-> ready]),
                          !.signalled = IF isobj
                                        THEN hist.signalled \cup {w.handles[fired + 1]}
                                        ELSE hist.signalled]
           /\ IF ready = WAIT_FAILED
              THEN RestReturns(-1)
              ELSE IF ready = WAIT_TIMEOUT \/ ready = WAIT_IO_COMPLETION
              THEN RestReturns(0)
              ELSE IF isobj
              THEN LET fds == MarkFired(w.fds, w.handles[fired + 1]) IN
                   IF w.t = 0 /\ w.n > 1
                   THEN /\ pc' = "rest"
                        /\ w' = [w EXCEPT !.fds = fds,
                                          !.handles = RemoveFired(w.handles, w.n, fired),
                                          !.n = w.n - 1,
                                          !.acc = w.acc + 1]
                   ELSE /\ pc' = "rested"
                        /\ w' = [w EXCEPT !.fds = fds, !.rc = 1 + w.acc]
              ELSE RestReturns(0)
    /\ UNCHANGED <<poll, pctx, calls, last>>

\* a level of poll_rest with handles, for every value its wait can return
PollRestWait ==
    /\ pc = "rest"
    /\ w.n # 0
    /\ \E ready \in WaitForMultipleObjectsEx(w.n, w.handles, w.t, hist.signalled) :
          PollRestLevel(ready)

\* the probe found nothing and the timeout is significant: poll_rest is called
\* again with the caller's timeout
PollAgain ==
    /\ pc = "rested"
    /\ w.phase = "probe"
    /\ w.rc = 0 /\ Significant(w.timeout)
    /\ pc' = "rest"
    /\ w' = [w EXCEPT !.phase = "timed", !.n = w.nhandles, !.t = w.timeout, !.acc = 0]
    /\ hist' = [hist EXCEPT !.probed = TRUE, !.probe = w.rc]
    /\ UNCHANGED <<poll, pctx, calls, last>>

\* ssh_poll returns rc, after clearing every revents if rc < 0
PollReturn ==
    /\ pc = "rested"
    /\ w.phase = "probe" => ~(w.rc = 0 /\ Significant(w.timeout))
    /\ pc' = "idle"
    /\ w' = [w EXCEPT !.fds = IF w.rc < 0
                               THEN [k \in 1 .. Len(w.fds) |->
                                        [w.fds[k] EXCEPT !.revents = 0]]
                               ELSE w.fds]
    /\ hist' = IF w.phase = "probe"
               THEN [hist EXCEPT !.probed = TRUE, !.probe = w.rc]
               ELSE hist
    /\ ReturnArg("ssh_poll", NULL, w.timeout, w.rc)
    /\ UNCHANGED <<poll, pctx, calls>>

\* ---------------------------------------------------------- specifications
CbResults == {-1, 0}

Init ==
    /\ poll = [p \in Events |-> ssh_poll_new(Fd(p), 1, 1)]
    /\ pctx \in [Contexts -> {ssh_poll_ctx_new(k) : k \in 0 .. MaxChunk}]
    /\ pc = "idle"
    /\ w = NoWalk
    /\ calls = [p \in Events |-> 0]
    /\ hist = NoHist
    /\ last = NoCall

\* the same, with the second context left at the default chunk: the initial
\* states of the specifications that use the first context only
InitOne == Init /\ pctx[2] = ssh_poll_ctx_new(0)

\* attach, detach and descriptor reads on two contexts, reallocations succeeding
Next ==
    \/ \E c \in Contexts, p \in Events, o \in AllocOK : CallAdd(c, p, o)
    \/ \E c \in Contexts, p \in Events, o \in AllocOK : CallRemove(c, p, o)
    \/ \E p \in Events : CallGetFd(p)

Spec == Init /\ [][Next]_vars

\* attach and detach on one context, and the three mask setters
NextEvents ==
    \/ \E p \in Events, o \in AllocOK : CallAdd(1, p, o)
    \/ \E p \in Events, o \in AllocOK : CallRemove(1, p, o)
    \/ \E p \in Events, m \in Masks : CallSetEvents(p, m)
    \/ \E p \in Events, m \in Masks \ {0} : CallAddEvents(p, m)
    \/ \E p \in Events, m \in Masks \ {0} : CallRemoveEvents(p, m)

SpecEvents == InitOne /\ [][NextEvents]_vars

\* what the wait can report for context c: a failure, or the set F of live
\* slots that fired with the readiness rv of each (F = {} is the timeout)
Wait(c) ==
    /\ Idle
    /\ \E F \in SUBSET Live(c), fail \in BOOLEAN :
          \E rv \in [F -> REvents] : DispatchWait(c, F, rv, fail, 0)

\* attach and detach on one context, and ssh_poll_ctx with callbacks that detach
\* any of the attached poll objects and return the sentinel or 0
NextDispatch ==
    \/ \E p \in Events, o \in AllocOK : CallAdd(1, p, o)
    \/ \E p \in Events, o \in AllocOK : CallRemove(1, p, o)
    \/ DispatchEmpty(1, 0)
    \/ Wait(1)
    \/ DispatchReturn
    \/ DispatchSkip
    \/ DispatchInvoke
    \/ \E q \in Events, o \in AllocOK : CbRemove(q, o)
    \/ \E r \in CbResults : DispatchCbReturn(r)

SpecDispatch == InitOne /\ [][NextDispatch]_vars

\* the caller has not called ssh_poll_ctx yet
NotPolled == last.op # "poll_ctx"

\* the caller attaches p before it calls ssh_poll_ctx
AddFirst(p, o) == NotPolled /\ CallAdd(1, p, o)

\* the caller detaches p before it calls ssh_poll_ctx
RemoveFirst(p, o) == NotPolled /\ CallRemove(1, p, o)

\* ssh_poll_ctx is called with nothing attached
PollEmpty(timeout) == NotPolled /\ DispatchEmpty(1, timeout)

\* ssh_poll_ctx is called, with any timeout, and the wait reports a failure, or
\* the set F of live slots that fired with the readiness rv of each (F = {} is
\* the timeout)
PollWait ==
    /\ Idle
    /\ NotPolled
    /\ \E F \in SUBSET Live(1), fail \in BOOLEAN, timeout \in Timeouts :
          \E rv \in [F -> REvents] : DispatchWait(1, F, rv, fail, timeout)

\* the caller attaches the poll objects in the order of their numbers
AddNext(o) ==
    /\ pctx[1].polls_used < NumEvents
    /\ AddFirst(pctx[1].polls_used + 1, o)

\* ssh_poll_ctx is called, with any timeout, and the wait reports a failure, or
\* the set F of live slots that are readable
PollReadable ==
    /\ Idle
    /\ NotPolled
    /\ \E F \in SUBSET Live(1), fail \in BOOLEAN, timeout \in Timeouts :
          DispatchWait(1, F, [i \in F |-> 1], fail, timeout)

\* the running callback detaches q, while the callbacks of the walk have
\* detached fewer than MaxDetach poll objects
CbDetach(q, o) ==
    /\ pc = "cb"
    /\ hist.nfds - pctx[w.c].polls_used < MaxDetach
    /\ CbRemove(q, o)

\* attach on one context, then one call of ssh_poll_ctx whose callbacks detach any
\* of the attached poll objects and return the sentinel or 0
NextWalk ==
    \/ \E o \in AllocOK : AddNext(o)
    \/ \E timeout \in Timeouts : PollEmpty(timeout)
    \/ PollReadable
    \/ DispatchReturn
    \/ DispatchSkip
    \/ DispatchInvoke
    \/ \E q \in Events, o \in AllocOK : CbDetach(q, o)
    \/ \E r \in CbResults : DispatchCbReturn(r)

SpecWalk == InitOne /\ [][NextWalk]_vars

\* what a callback that does not ask for a reload returns
QuietResults == {0, 1}

\* attach and detach on one context, then one call of ssh_poll_ctx, with every
\* timeout, whose callbacks detach nothing and return a non-negative value
NextQuiet ==
    \/ \E p \in Events, o \in AllocOK : AddFirst(p, o)
    \/ \E p \in Events, o \in AllocOK : RemoveFirst(p, o)
    \/ \E timeout \in Timeouts : PollEmpty(timeout)
    \/ PollWait
    \/ DispatchReturn
    \/ DispatchSkip
    \/ DispatchInvoke
    \/ \E r \in QuietResults : DispatchCbReturn(r)

SpecQuiet == InitOne /\ [][NextQuiet]_vars

\* attach and detach on one context, each reallocation succeeding or failing
NextAlloc ==
    \/ \E p \in Events, o \in AllocAny : CallAdd(1, p, o)
    \/ \E p \in Events, o \in AllocAny : CallRemove(1, p, o)

SpecAlloc == InitOne /\ [][NextAlloc]_vars

\* no context is in use
InitPoll == Init /\ pctx = [c \in Contexts |-> ssh_poll_ctx_new(0)]

\* ssh_poll is called with a null array
PollNull ==
    /\ Idle
    /\ last.n = 0
    /\ \E fds \in PollFds, timeout \in Timeouts : PollReject(TRUE, fds, timeout)

\* ssh_poll is called on an array of PollFds, with any timeout, while any of the
\* handles are signalled
PollCall ==
    /\ Idle
    /\ last.n = 0
    /\ \E fds \in PollFds, timeout \in Timeouts, R \in SUBSET Handles :
          PollEnter(fds, timeout, R)

\* one call of the emulated ssh_poll
NextPoll ==
    \/ PollNull
    \/ PollCall
    \/ PollRestSleep
    \/ PollRestWait
    \/ PollAgain
    \/ PollReturn

SpecPoll == InitPoll /\ [][NextPoll]_vars

\* a callback of the sweep that keeps to the removal protocol returns r
FreeCbReturnKept(r) == KeptProtocol(r) /\ FreeCbReturn(r)

\* a callback of the sweep detaches its own poll object
FreeCbRemoveSelf(o) == CbRemove(w.p, o)

\* attach and detach, and ssh_poll_ctx_free with callbacks that keep to the removal
\* protocol: each detaches its own poll object and returns the sentinel, or
\* detaches nothing and returns 0
NextFree ==
    \/ \E c \in Contexts, p \in Events, o \in AllocOK : CallAdd(c, p, o)
    \/ \E c \in Contexts, p \in Events, o \in AllocOK : CallRemove(c, p, o)
    \/ \E c \in Contexts : FreeEmpty(c)
    \/ \E c \in Contexts : FreeStart(c)
    \/ FreeReturn
    \/ FreeInvoke
    \/ \E o \in AllocOK : FreeCbRemoveSelf(o)
    \/ \E r \in CbResults : FreeCbReturnKept(r)

SpecFree == Init /\ [][NextFree]_vars

\* ------------------------------------------------------------------ claims
\* an API call has just returned (the step is that call)
Returned(op) == last'.n = last.n + 1 /\ last'.op = op

\* C1: between API calls, every live slot i < polls_used of every context c holds
\* a poll object whose stored position idx is i and whose context is c (so the
\* object ssh_poll_ctx_remove moved into a vacated slot has that slot as its idx).
C1_LiveSlotsKnowTheirIndex ==
    pc = "idle" =>
        \A c \in Contexts : \A i \in Live(c) :
            /\ PtrAt(c, i) \in Events
            /\ poll[PtrAt(c, i)].ctx = c
            /\ poll[PtrAt(c, i)].u = i

\* C2: between API calls, every attached poll object E has an idx that is a live
\* index of its context, the context's pointer array holds E at idx, and the raw
\* record at idx carries the descriptor E was created with.
C2_AttachedEventsAreAtTheirIndex ==
    pc = "idle" =>
        \A e \in Events : poll[e].ctx # NULL =>
            /\ poll[e].u \in Live(poll[e].ctx)
            /\ PtrAt(poll[e].ctx, poll[e].u) = e
            /\ FdsAt(poll[e].ctx, poll[e].u).def
            /\ FdsAt(poll[e].ctx, poll[e].u).fd = Fd(e)

\* C6: a detach leaves the detached object's own descriptor equal to the one it
\* was created with, and an attach that succeeds installs a raw record (the last
\* live one) carrying that descriptor.
C6_DescriptorSurvivesDetach ==
    /\ last.op = "remove" => poll[last.p].u = Fd(last.p)
    /\ (last.op = "add" /\ last.rc = 0) =>
           /\ FdsAt(last.c, pctx[last.c].polls_used - 1).def
           /\ FdsAt(last.c, pctx[last.c].polls_used - 1).fd = Fd(last.p)

\* C7: with reallocations succeeding, after every completed add or remove each
\* context has polls_used <= polls_allocated and a slack polls_allocated -
\* polls_used of at most chunk_size.
C7_SlackWithinOneChunk ==
    pc = "idle" =>
        \A c \in Contexts :
            /\ pctx[c].polls_used <= pctx[c].polls_allocated
            /\ pctx[c].polls_allocated - pctx[c].polls_used <= pctx[c].chunk_size

\* a remove has just returned leaving the slack at exactly one chunk, in arrays of
\* more than one chunk: the largest slack the shrink test lets stand
C7_Witness ==
    /\ last.op = "remove"
    /\ pctx[last.c].polls_allocated - pctx[last.c].polls_used = pctx[last.c].chunk_size
    /\ pctx[last.c].polls_allocated > pctx[last.c].chunk_size

\* the state of the scenario after its three attaches: context c has chunk 2,
\* capacity 4 and the objects of descriptors 10, 11, 12 in slots 0, 1, 2
C8_Attached3(c) ==
    /\ pctx[c].chunk_size = 2
    /\ pctx[c].polls_allocated = 4
    /\ pctx[c].polls_used = 3
    /\ \A i \in 0 .. 2 :
          /\ PtrAt(c, i) = i + 1
          /\ FdsAt(c, i).def
          /\ FdsAt(c, i).fd = 10 + i
          /\ poll[i + 1].ctx = c
          /\ poll[i + 1].u = i

\* the growth steps of the scenario: on a context of chunk 2 a successful attach
\* takes capacity 0 to 2 and, with two live entries, capacity 2 to 4 with used 3
C8_Growth(c) ==
    (pctx[c].chunk_size = 2 /\ Returned("add") /\ last'.c = c /\ last'.rc = 0) =>
        /\ pctx[c].polls_allocated = 0 => pctx'[c].polls_allocated = 2
        /\ (pctx[c].polls_allocated = 2 /\ pctx[c].polls_used = 2) =>
               (pctx'[c].polls_allocated = 4 /\ pctx'[c].polls_used = 3)

\* the detach of the scenario: descriptor 12's object and record are in slot 1,
\* used is 2, and the capacity is cap
C8_Detach11(c, cap) ==
    (C8_Attached3(c) /\ Returned("remove") /\ last'.c = c /\ last'.p = 2) =>
        /\ pctx'[c].polls_used = 2
        /\ pctx'[c].pollptrs[2] = 3
        /\ pctx'[c].pollfds[2].fd = 12
        /\ pctx'[c].pollfds[2].def
        /\ pctx'[c].pollptrs[1] = 1
        /\ pctx'[c].polls_allocated = cap

\* C8 (as the spec states it): chunk 2, attach 10, 11, 12: capacity 0 -> 2 -> 4,
\* used 3; detach 11: 12 moves into slot 1, used 2, capacity shrinks back to 2.
C8_ScenarioShrinksTo2 ==
    [][\A c \in Contexts : C8_Growth(c) /\ C8_Detach11(c, 2)]_vars

\* C8 (amended): the same scenario, but the detach leaves the capacity at 4: the
\* slack 4 - 2 = 2 does not exceed the chunk, and only a slack above it shrinks.
C8_ScenarioKeepsCapacity4 ==
    [][\A c \in Contexts : C8_Growth(c) /\ C8_Detach11(c, 4)]_vars

\* the scenario has run to its end: four calls, the last one the detach of 11
C8_Witness ==
    /\ last.op = "remove" /\ last.p = 2 /\ last.n = 4
    /\ pctx[last.c].chunk_size = 2
    /\ pctx[last.c].polls_used = 2
    /\ pctx[last.c].polls_allocated = 4
    /\ PtrAt(last.c, 0) = 1 /\ PtrAt(last.c, 1) = 3
    /\ FdsAt(last.c, 1).fd = 12

\* C9: ssh_poll_ctx_add on a poll object that already has a context (this one or
\* another) returns -1 and changes no poll object and no context.
C9_AddAttachedChangesNothing ==
    [][\A p \in Events :
          (poll[p].ctx # NULL /\ Returned("add") /\ last'.p = p) =>
              (last'.rc = -1 /\ poll' = poll /\ pctx' = pctx)]_vars

\* an add has just failed on an object attached to the other context
C9_Witness ==
    /\ last.op = "add" /\ last.rc = -1
    /\ poll[last.p].ctx # NULL
    /\ poll[last.p].ctx # last.c
    /\ pctx[last.c].polls_used > 0

\* C3: within one ssh_poll_ctx call whose callbacks keep to the removal protocol
\* (a callback that returns the sentinel has detached its own poll object, one
\* that returns 0 has detached nothing), no poll object's callback runs twice.
C3_NoCallbackTwice ==
    (pc \in {"walk", "cb"} /\ hist.contract) =>
        \A e \in Events : calls[e] <= 1

\* C4: when ssh_poll_ctx returns after a wait that reported exactly the fired
\* slots, and its callbacks kept to the removal protocol, every poll object that
\* fired and is still attached has had its callback run during the call.
C4_FiredAttachedWereCalled ==
    (pc = "idle" /\ last.op = "poll_ctx" /\ hist.contract) =>
        \A e \in hist.fired : poll[e].ctx = last.c => calls[e] >= 1

\* C5: ssh_poll_ctx_free, with callbacks that keep to the removal protocol, runs
\* the callback of each poll object attached at its start exactly once, with
\* POLLERR and that object's descriptor, and ends with both arrays released.
C5_FreeNotifiesEachOnce ==
    /\ pc \in {"free", "fcb"} => \A e \in Events : calls[e] <= 1
    /\ pc = "fcb" => (w.revents = POLLERR /\ w.fd = Fd(w.p))
    /\ (pc = "idle" /\ last.op = "ctx_free") =>
           /\ \A e \in hist.start : calls[e] = 1
           /\ pctx[last.c].pollptrs = << >>
           /\ pctx[last.c].pollfds = << >>

\* the mask a setter called with m leaves in a poll object whose mask is old
NewMask(op, old, m) ==
    CASE op = "set_events" -> m
      [] op = "add_events" -> BitOr(old, m)
      [] op = "remove_events" -> BitAndNot(old, m)

\* C10: a mask setter called on an attached poll object E stores the new mask
\* (m, or the OR / AND-NOT of E's mask with m) in the live raw record paired with
\* E, and changes no other live record of the context and no other poll object.
C10_SetEventsReachesOwnRecord ==
    [][\A p \in Events, op \in {"set_events", "add_events", "remove_events"} :
          (poll[p].ctx # NULL /\ Returned(op) /\ last'.p = p) =>
              LET c == poll[p].ctx
                  m == NewMask(op, poll[p].events, last'.arg)
              IN  /\ poll'[p].events = m
                  /\ \A q \in Events \ {p} : poll'[q] = poll[q]
                  /\ \E i \in Live(c) :
                        /\ PtrAt(c, i) = p
                        /\ pctx'[c].pollfds[i + 1].events = m
                        /\ \A j \in Live(c) \ {i} :
                              pctx'[c].pollfds[j + 1] = pctx[c].pollfds[j + 1]]_vars

\* a call was made in this step: it returned, or it entered its walk
Called == <<pc, w, last>>' # <<pc, w, last>>

\* C12: when the wait returns a negative value, ssh_poll_ctx returns that value
\* at once: it runs no callback and leaves every poll object, the number of
\* attached poll objects and the slots they are in as they were.
C12_WaitFailureIsReturned ==
    [][(pc = "idle" /\ Called /\ hist'.wait < 0) =>
          /\ Returned("poll_ctx")
          /\ last'.rc = hist'.wait
          /\ pc' = "idle"
          /\ hist'.log = << >>
          /\ \A e \in Events : calls'[e] = 0
          /\ poll' = poll
          /\ pctx'[last'.c].polls_used = pctx[last'.c].polls_used
          /\ pctx'[last'.c].pollptrs = pctx[last'.c].pollptrs]_vars

\* ssh_poll_ctx has returned the failure of a wait over two attached poll objects
C12_Witness ==
    /\ pc = "idle" /\ last.op = "poll_ctx" /\ last.rc = -1
    /\ hist.waited /\ hist.wait = -1
    /\ hist.nfds = 2
    /\ pctx[last.c].polls_used = 2

\* C13: ssh_poll_ctx on a context with polls_used = 0 returns 0, whatever the
\* timeout (the infinite one included), without calling the wait and without
\* running a callback.
C13_EmptyContextReturnsAtOnce ==
    (pc = "idle" /\ last.op = "poll_ctx" /\ hist.nfds = 0) =>
        /\ last.rc = 0
        /\ ~hist.waited
        /\ hist.log = << >>
        /\ \A e \in Events : calls[e] = 0

\* ssh_poll_ctx has returned from a call with the infinite timeout on a context
\* that has its arrays but nothing attached
C13_Witness ==
    /\ pc = "idle" /\ last.op = "poll_ctx" /\ last.arg = INFINITE /\ last.rc = 0
    /\ hist.nfds = 0
    /\ pctx[last.c].polls_used = 0
    /\ pctx[last.c].polls_allocated > 0

\* the walk is about to examine slot w.i
Examining == pc = "walk" /\ LoopRuns(w.i, w.used, w.rc)

\* C14 (as the spec states it): whatever its callbacks detached and returned, the
\* walk examines no slot, and runs no callback of a slot, at an index that is
\* not below the context's current polls_used.
C14_WalkStaysBelowCurrentUsed ==
    Examining => w.i < pctx[w.c].polls_used

\* C14 (amended): the same, in the walks where every callback that detached
\* something returned the sentinel: the bound is read again only after a
\* callback that returned the sentinel.
C14_WalkStaysBelowUsedWhenReported ==
    (Examining /\ hist.reported) => w.i < pctx[w.c].polls_used

\* the walk goes on after a callback that detached its poll object and another
\* one and returned the sentinel: the bound was read again and is 1
C14_Witness ==
    /\ Examining /\ hist.reported
    /\ hist.n >= 1
    /\ hist.nfds = 3
    /\ w.used = 1
    /\ pctx[w.c].polls_used = 1

\* the slots of F in increasing order
RECURSIVE Ascending(_)
Ascending(F) ==
    IF F = {} THEN << >>
    ELSE LET m == CHOOSE i \in F : \A j \in F : i <= j
         IN  <<m>> \o Ascending(F \ {m})

\* C15: when the wait returned the number n > 0 of fired slots and no callback
\* detaches anything or returns the sentinel, the callbacks of the fired slots
\* run once each in increasing order of index, each with the poll object, the
\* descriptor and the readiness of its slot; no other callback runs; at the end
\* every live readiness is 0 and ssh_poll_ctx returns 0.
C15_QuietWalkRunsEachFiredOnce ==
    /\ (pc = "cb" /\ hist.quiet /\ w.det = {}) =>
           /\ w.i \in hist.slots
           /\ w.p = PtrAt(w.c, w.i)
           /\ FdsAt(w.c, w.i).def
           /\ w.fd = FdsAt(w.c, w.i).fd
           /\ w.revents = FdsAt(w.c, w.i).revents
           /\ w.revents # 0
    /\ (pc = "idle" /\ last.op = "poll_ctx" /\ hist.wait > 0 /\ hist.quiet) =>
           /\ hist.log = Ascending(hist.slots)
           /\ \A i \in Live(last.c) : FdsAt(last.c, i).def /\ FdsAt(last.c, i).revents = 0
           /\ last.rc = 0

\* a walk over three live slots of which the first and the last fired has
\* returned after two callbacks that detached nothing and returned 0
C15_Witness ==
    /\ pc = "idle" /\ last.op = "poll_ctx" /\ hist.quiet
    /\ hist.nfds = 3
    /\ hist.slots = {0, 2}
    /\ hist.log = <<0, 2>>

\* C16: when ssh_poll_ctx_add has to grow the arrays (polls_used =
\* polls_allocated) and a reallocation fails, it returns -1, polls_used and
\* polls_allocated are unchanged, the poll object is still detached with its
\* descriptor and mask, and every live slot still holds its pointer and record.
C16_FailedGrowthChangesNothing ==
    [][\A c \in Contexts, p \in Events :
          (/\ poll[p].ctx = NULL
           /\ pctx[c].polls_used = pctx[c].polls_allocated
           /\ Returned("add") /\ last'.c = c /\ last'.p = p /\ last'.rc = -1) =>
              /\ pctx'[c].polls_used = pctx[c].polls_used
              /\ pctx'[c].polls_allocated = pctx[c].polls_allocated
              /\ poll' = poll
              /\ \A i \in Live(c) :
                    /\ Slot(pctx'[c].pollptrs, i, GarbagePtr) = PtrAt(c, i)
                    /\ InBlock(pctx'[c].pollptrs, i)
                    /\ Slot(pctx'[c].pollfds, i, Garbage) = FdsAt(c, i)]_vars

\* C19: with reallocations succeeding, once a context has had a successful add,
\* its polls_allocated is at least chunk_size after every later add or remove
\* (also when the context becomes empty).
C19_CapacityStaysAtLeastOneChunk ==
    [][\A c \in Contexts :
          (\/ pctx[c].polls_allocated > 0
           \/ Returned("add") /\ last'.c = c /\ last'.rc = 0) =>
              pctx'[c].polls_allocated >= pctx'[c].chunk_size]_vars

\* the fourth call on a context of chunk 1 is a remove that has emptied it, and
\* one chunk is still allocated
C19_Witness ==
    /\ last.op = "remove" /\ last.n = 4
    /\ pctx[last.c].chunk_size = 1
    /\ pctx[last.c].polls_used = 0
    /\ pctx[last.c].polls_allocated = 1
    /\ \A c \in Contexts \ {last.c} : pctx[c].polls_allocated = 0

\* the accesses ssh_poll_ctx_remove, ssh_poll_set_events and ssh_poll_get_fd would
\* make through p's stored position are inside the arrays
StoredPositionInside(p) ==
    /\ poll[p].u < pctx[poll[p].ctx].polls_allocated
    /\ \A r \in ssh_poll_get_fd(Heap, p) : ~r.oob
    /\ \A r \in ssh_poll_set_events(Heap, p, poll[p].events) : ~r.oob
    /\ \A o \in AllocOK : \A r \in ssh_poll_ctx_remove(Heap, poll[p].ctx, p, o) : ~r.oob

\* C20: in every state reached by adds and removes (each remove of a poll object
\* attached to that context, reallocations succeeding), every array access made
\* through an attached poll object's stored position by ssh_poll_ctx_remove,
\* ssh_poll_set_events and ssh_poll_get_fd uses an index below polls_allocated,
\* and the calls made have made none outside the arrays.
C20_StoredPositionsInsideArrays ==
    /\ ~last.oob
    /\ \A p \in Events : poll[p].ctx # NULL => StoredPositionInside(p)

\* the emulated ssh_poll has returned
PollReturned == pc = "idle" /\ last.op = "ssh_poll"

\* the entries whose revents is not empty
NonEmpty(fds) == {k \in 1 .. Len(fds) : fds[k].revents # 0}

\* C11: on every non-negative return of ssh_poll the value returned is the
\* number of entries whose revents is not empty, and every entry whose handle
\* did not fire has an empty revents (so on 0, the timeout, all are empty).
C11_ReturnCountsFiredEntries ==
    (PollReturned /\ last.rc >= 0) =>
        /\ last.rc = Cardinality(NonEmpty(w.fds))
        /\ \A k \in 1 .. Len(w.fds) :
              w.fds[k].fd \notin hist.signalled => w.fds[k].revents = 0

\* the wait that was made last
LastWait == hist.waits[Len(hist.waits)]

\* the call ended with a wait on all its handles with the caller's timeout
TimedWaitMade ==
    /\ w.phase = "timed"
    /\ hist.waits # << >>
    /\ LastWait.t = w.timeout
    /\ LastWait.n = w.nhandles

\* C17 (as the spec states it): whenever the zero-timeout probe of the emulated
\* ssh_poll finds nothing ready and the caller's timeout is not zero (any
\* positive number of milliseconds, or infinite), the wait is made again with
\* the caller's timeout.
C17_ProbeIsRepeatedOnAnyTimeout ==
    (PollReturned /\ hist.probed /\ hist.probe = 0 /\ w.timeout # 0) => TimedWaitMade

\* C17 (amended): the wait is made again with the caller's timeout when that
\* timeout is infinite or at least ten milliseconds; on a timeout of 0 to 9
\* milliseconds ssh_poll returns the 0 of the probe without a second wait.
C17_ProbeIsRepeatedOnSignificantTimeout ==
    (PollReturned /\ hist.probed /\ hist.probe = 0) =>
        IF w.timeout = INFINITE \/ w.timeout >= MinTimeout
        THEN TimedWaitMade
        ELSE /\ w.phase = "probe"
             /\ last.rc = 0
             /\ \A i \in 1 .. Len(hist.waits) : hist.waits[i].t = 0

\* a call with a timeout of ten milliseconds has returned 1 from its second wait
C17_Witness ==
    /\ PollReturned /\ hist.probed /\ hist.probe = 0
    /\ w.timeout = MinTimeout
    /\ TimedWaitMade
    /\ Len(hist.waits) = 2
    /\ last.rc = 1

\* every wait of waits reported a signalled handle or the timeout
Clean(waits) ==
    \A i \in 1 .. Len(waits) :
        \/ waits[i].ready = WAIT_TIMEOUT
        \/ waits[i].ready >= WAIT_OBJECT_0 /\ waits[i].ready < WAIT_OBJECT_0 + waits[i].n

\* the handles of the call that are signalled
ReadyHandles == {hist.handles[i] : i \in 1 .. Len(hist.handles)} \cap hist.signalled

\* C18: the zero-timeout probe of n >= 2 distinct handles of which k are
\* signalled, when each of its waits reports a signalled handle or the timeout:
\* every level that recurses removes the handle that fired from the candidates
\* and keeps the others in their order; poll_rest returns k after at most n
\* waits, with revents = events in every entry of a signalled handle and the
\* revents of every other entry as it was.
C18_ProbeCountsReadyHandles ==
    [][(pc = "rest" /\ pc' # "idle" /\ w.phase = "probe" /\ hist'.waits # hist.waits
        /\ Clean(hist'.waits)) =>
          /\ w.t = 0 /\ w.nhandles >= 2
          /\ pc' = "rest" =>
                LET fired == hist'.waits[Len(hist'.waits)].ready - WAIT_OBJECT_0 IN
                /\ w'.n = w.n - 1
                /\ w.handles[fired + 1] \in hist.signalled
                /\ \A j \in 1 .. w'.n :
                      w'.handles[j] = IF j - 1 < fired THEN w.handles[j]
                                                      ELSE w.handles[j + 1]
          /\ pc' = "rested" =>
                /\ w'.rc = Cardinality(ReadyHandles)
                /\ Len(hist'.waits) <= w.nhandles
                /\ \A k \in 1 .. Len(w'.fds) :
                      w'.fds[k] = IF hist.fds[k].fd \in ReadyHandles
                                  THEN [hist.fds[k] EXCEPT !.revents = hist.fds[k].events]
                                  ELSE hist.fds[k]]_vars

\* the probe of three handles has returned 2 after three waits: the second
\* handle fired first and was removed from the middle, then the third
C18_Witness ==
    /\ pc = "rested" /\ w.phase = "probe"
    /\ Len(hist.handles) = 3
    /\ Len(hist.waits) = 3 /\ Clean(hist.waits)
    /\ hist.waits[1].ready = WAIT_OBJECT_0 + 1
    /\ hist.waits[2].ready = WAIT_OBJECT_0 + 1
    /\ hist.waits[3].ready = WAIT_TIMEOUT
    /\ w.rc = 2

====
